---- MODULE Spec2Model ----
(***************************************************************************)
(* sendgrid-rs: builders for the payload of SendGrid's v3 mail/send API    *)
(* and its serialization to JSON (serde derive + serde_json::to_string).   *)
(*                                                                         *)
(* A builder is modelled by the struct it wraps (its only field), so that  *)
(* build(), which returns that field, returns the builder's state.  Every  *)
(* builder method is an operator on that struct, translated from its body; *)
(* every action applies one method to a builder held in the state.         *)
(* An Option<T> is a sequence of length 0 (None) or 1 (Some(x)); a Vec<T>  *)
(* is a sequence; a HashMap<String, String> is a record [seed, m]: the     *)
(* entries m and the seed of its RandomState, which decides the order in   *)
(* which the entries are iterated.                                         *)
(*                                                                         *)
(* A JSON text is modelled by its ordered syntax tree: an object is the    *)
(* sequence of its members in the order they are written, so two trees are *)
(* equal exactly when serde_json's compact output is the same text.        *)
(***************************************************************************)
EXTENDS Integers, Sequences, FiniteSets, TLC

VARIABLES
    builder,    \* the builder chain in progress of each kind, an Option per kind:
                \*   contact, attachment, asm, ga, mail, track, pers, message, and
                \*   twin, a second MessageBuilder chain that is given the same calls
    built,      \* the value build() returned for each kind, an Option per kind
    json,       \* Option: what to_json() returned on built.message
    twinJson,   \* Option: what to_json() returned on built.twin
    called,     \* the methods called on the chain in progress, since its constructor
    calls       \* the number of configuration calls made on the chain in progress

vars == <<builder, built, json, twinJson, called, calls>>

(***************************************************************************)
(* Bounds of the model.                                                    *)
(***************************************************************************)
\* The most configuration calls explored on one Personalization or Message chain.
MaxCalls == 3
\* The most elements appended to the groups_to_display list of one AsmBuilder.
MaxList == 2

(***************************************************************************)
(* Argument values.                                                        *)
(***************************************************************************)
\* No method validates its argument: the values include an address that is none
\* and a negative number.
Emails == {"to@example.com", "not an email"}
Names == {"from", "to"}
Int32s == {-5, 1}
MapKeys == {"a", "b"}
MapValues == {"x", "y"}
\* The RandomState of a HashMap, up to the iteration order it gives two keys.
Seeds == {0, 1}

(***************************************************************************)
(* Option<T>                                                               *)
(***************************************************************************)
None == <<>>
Some(x) == <<x>>
OptionsOf(S) == {None} \cup {Some(x) : x \in S}

(***************************************************************************)
(* JSON syntax trees, and serde's data model for the types the crate uses. *)
(***************************************************************************)
JNull == [t |-> "null"]
JBool(b) == [t |-> "bool", b |-> b]
JStr(s) == [t |-> "str", s |-> s]
\* Mutant: a number is written between quotes, as a string.
Mut_JNum(n) == [t |-> "str", s |-> n]
JNum(n) == [t |-> "num", n |-> n]
\* An array; a Vec<T> is written as the array of its elements in order.
JArr(elems) == [t |-> "arr", a |-> elems]
JObj(members) == [t |-> "obj", o |-> members]

\* One member "k": v of an object, as a one-element list of members.
Field(k, v) == << [k |-> k, v |-> v] >>
\* Mutant: the skip_serializing_if attribute is missing, the member is always written.
Mut_FieldSkipIf(skip, k, v) == Field(k, v)
\* #[serde(skip_serializing_if = "...")]: the member is not written when skip holds.
FieldSkipIf(skip, k, v) == IF skip THEN <<>> ELSE Field(k, v)
\* Option<T>: None is written as null, Some(x) as j, the serialization of x.
SerOption(o, j) == IF o = None THEN JNull ELSE j

(***************************************************************************)
(* HashMap<String, String>                                                 *)
(***************************************************************************)
\* The bucket a key hashes to under a seed.
Bucket(seed, k) == ((IF k = "a" THEN 0 ELSE 1) + seed) % 2
HashMap_new(seed) == [seed |-> seed, m |-> [k \in {} |-> ""]]
\* Mutant: a key that is present keeps its value.
Mut_HashMap_insert(hm, k, v) ==
    [hm EXCEPT !.m = [x \in DOMAIN hm.m \cup {k} |->
                         IF x \in DOMAIN hm.m THEN hm.m[x] ELSE v]]
HashMap_insert(hm, k, v) ==
    [hm EXCEPT !.m = [x \in DOMAIN hm.m \cup {k} |-> IF x = k THEN v ELSE hm.m[x]]]
\* Mutant: the predicate given to skip_serializing_if never holds for a map.
Mut_HashMap_is_empty(hm) == FALSE
HashMap_is_empty(hm) == DOMAIN hm.m = {}
\* The keys in iteration order: by bucket.
RECURSIVE IterFrom(_, _)
IterFrom(hm, b) ==
    IF b >= 2 THEN <<>>
    ELSE LET here == {k \in DOMAIN hm.m : Bucket(hm.seed, k) = b}
         IN  (IF here = {} THEN <<>> ELSE << CHOOSE k \in here : TRUE >>)
             \o IterFrom(hm, b + 1)
HashMap_iter(hm) == IterFrom(hm, 0)
\* HashMap<String, String>: an object of the entries in iteration order.
SerHashMap(hm) ==
    LET ks == HashMap_iter(hm)
    IN  JObj([i \in 1..Len(ks) |-> [k |-> ks[i], v |-> JStr(hm.m[ks[i]])]])

(***************************************************************************)
(* lib.rs: Contact, Content, Asm                                           *)
(***************************************************************************)
\* Contact::new
Contact_new(email, name) == [email |-> email, name |-> name]
ContactBuilder_new(email) == Contact_new(email, None)
ContactBuilder_name(self, name) == [self EXCEPT !.name = Some(name)]
\* #[derive(Serialize)] struct Contact: no field carries a serde attribute.
SerContact(c) ==
    JObj(Field("email", JStr(c.email)) \o Field("name", SerOption(c.name, JStr(c.name[1]))))

Content_new(c_type, value) == [c_type |-> c_type, value |-> value]
\* Mutant: the rename attribute is missing, the field is written under its own name.
Mut_SerContent(c) ==
    JObj(Field("c_type", JStr(c.c_type)) \o Field("value", JStr(c.value)))
\* #[derive(Serialize)] struct Content: c_type is renamed to "type".
SerContent(c) ==
    JObj(Field("type", JStr(c.c_type)) \o Field("value", JStr(c.value)))

AsmBuilder_new(group_id) == [group_id |-> group_id, groups_to_display |-> <<>>]
AsmBuilder_group_to_display(self, group) ==
    [self EXCEPT !.groups_to_display = Append(@, group)]
\* #[derive(Serialize)] struct Asm: no field carries a serde attribute.
SerAsm(a) ==
    JObj(Field("group_id", JNum(a.group_id))
         \o Field("groups_to_display",
                     JArr([i \in DOMAIN a.groups_to_display |-> JNum(a.groups_to_display[i])])))

(***************************************************************************)
(* attachment.rs                                                           *)
(***************************************************************************)
AttachmentBuilder_new(content, filename) ==
    [content |-> content, a_type |-> None, filename |-> filename,
     disposition |-> None, content_id |-> None]
AttachmentBuilder_attachment_type(self, t) == [self EXCEPT !.a_type = Some(t)]
AttachmentBuilder_disposition(self, disposition) ==
    [self EXCEPT !.disposition = Some(disposition)]
AttachmentBuilder_content_id(self, id) == [self EXCEPT !.content_id = Some(id)]
\* #[derive(Serialize)] struct Attachment: a_type is renamed to "type"; no field is skipped.
SerAttachment(a) ==
    JObj(Field("content", JStr(a.content))
         \o Field("type", SerOption(a.a_type, JStr(a.a_type[1])))
         \o Field("filename", JStr(a.filename))
         \o Field("disposition", SerOption(a.disposition, JStr(a.disposition[1])))
         \o Field("content_id", SerOption(a.content_id, JStr(a.content_id[1]))))

(***************************************************************************)
(* mail_settings.rs                                                        *)
(***************************************************************************)
\* #[derive(Default)] MailSettingsBuilder / MailSettings: every Option is None.
MailSettingsBuilder_default ==
    [bcc |-> None, bypass_list_management |-> None, footer |-> None,
     sandbox_mode |-> None, spam_check |-> None]
MailSettingsBuilder_bcc(self, email) ==
    [self EXCEPT !.bcc = Some([enable |-> TRUE, email |-> email])]
MailSettingsBuilder_bypass_list_management(self) ==
    [self EXCEPT !.bypass_list_management = Some([enable |-> TRUE])]
\* Mutant: a part of the footer that is not given keeps what an earlier call set.
Mut_MailSettingsBuilder_footer_merge(self, text, html) ==
    [self EXCEPT !.footer =
        Some([enable |-> TRUE,
              text |-> IF text = None /\ @ # None THEN @[1].text ELSE text,
              html |-> IF html = None /\ @ # None THEN @[1].html ELSE html])]
\* Mutant: the footer is enabled only when it is given a text or an html.
Mut_MailSettingsBuilder_footer(self, text, html) ==
    [self EXCEPT !.footer =
        Some([enable |-> (text # None \/ html # None), text |-> text, html |-> html])]
MailSettingsBuilder_footer(self, text, html) ==
    [self EXCEPT !.footer = Some([enable |-> TRUE, text |-> text, html |-> html])]
MailSettingsBuilder_sandbox_mode(self) ==
    [self EXCEPT !.sandbox_mode = Some([enable |-> TRUE])]
MailSettingsBuilder_spam_check(self, threshold, post_to_url) ==
    [self EXCEPT !.spam_check =
        Some([enable |-> TRUE, threshold |-> threshold, post_to_url |-> post_to_url])]

\* #[derive(Serialize)] on the five setting structs: no serde attribute on any field.
SerBccSetting(s) ==
    JObj(Field("enable", JBool(s.enable)) \o Field("email", JStr(s.email)))
SerBypassListSetting(s) == JObj(Field("enable", JBool(s.enable)))
SerFooterSetting(s) ==
    JObj(Field("enable", JBool(s.enable))
         \o Field("text", SerOption(s.text, JStr(s.text[1])))
         \o Field("html", SerOption(s.html, JStr(s.html[1]))))
SerSandboxModeSetting(s) == JObj(Field("enable", JBool(s.enable)))
SerSpamCheckSetting(s) ==
    JObj(Field("enable", JBool(s.enable))
         \o Field("threshold", SerOption(s.threshold, JNum(s.threshold[1])))
         \o Field("post_to_url", SerOption(s.post_to_url, JStr(s.post_to_url[1]))))
\* #[derive(Serialize)] struct MailSettings: no field carries skip_serializing_if.
SerMailSettings(ms) ==
    JObj(Field("bcc", SerOption(ms.bcc, SerBccSetting(ms.bcc[1])))
         \o Field("bypass_list_management",
                  SerOption(ms.bypass_list_management, SerBypassListSetting(ms.bypass_list_management[1])))
         \o Field("footer", SerOption(ms.footer, SerFooterSetting(ms.footer[1])))
         \o Field("sandbox_mode",
                     SerOption(ms.sandbox_mode, SerSandboxModeSetting(ms.sandbox_mode[1])))
         \o Field("spam_check",
                     SerOption(ms.spam_check, SerSpamCheckSetting(ms.spam_check[1]))))

(***************************************************************************)
(* tracking_settings.rs                                                    *)
(***************************************************************************)
\* impl Default for GaTrackingSetting, used by #[derive(Default)] GaTrackingSettingBuilder.
GaTrackingSettingBuilder_default ==
    [enable |-> TRUE, utm_source |-> None, utm_medium |-> None, utm_term |-> None,
     utm_content |-> None, utm_campaign |-> None]
GaTrackingSettingBuilder_utm_source(self, source) ==
    [self EXCEPT !.utm_source = Some(source)]
GaTrackingSettingBuilder_utm_medium(self, medium) ==
    [self EXCEPT !.utm_medium = Some(medium)]
GaTrackingSettingBuilder_utm_term(self, term) == [self EXCEPT !.utm_term = Some(term)]
GaTrackingSettingBuilder_utm_content(self, content) ==
    [self EXCEPT !.utm_content = Some(content)]
GaTrackingSettingBuilder_utm_campaign(self, campaign) ==
    [self EXCEPT !.utm_campaign = Some(campaign)]

\* #[derive(Default)] TrackingSettingsBuilder / TrackingSettings: every Option is None.
TrackingSettingsBuilder_default ==
    [click_tracking |-> None, open_tracking |-> None,
     subscription_tracking |-> None, ganalytics |-> None]
\* Mutant: click_tracking(false) switches click tracking off again.
Mut_TrackingSettingsBuilder_click_tracking(self, enable_text) ==
    [self EXCEPT !.click_tracking =
        IF enable_text THEN Some([enable |-> TRUE, enable_text |-> TRUE]) ELSE None]
TrackingSettingsBuilder_click_tracking(self, enable_text) ==
    [self EXCEPT !.click_tracking = Some([enable |-> TRUE, enable_text |-> enable_text])]
TrackingSettingsBuilder_open_tracking(self, substitution_tag) ==
    [self EXCEPT !.open_tracking =
        Some([enable |-> TRUE, substitution_tag |-> substitution_tag])]
TrackingSettingsBuilder_substitution_tag(self, substitution_tag, text, html) ==
    [self EXCEPT !.subscription_tracking =
        Some([enable |-> TRUE, substitution_tag |-> substitution_tag,
              text |-> text, html |-> html])]

\* #[derive(Serialize)] on the four setting structs: no serde attribute on any field.
SerClickTrackingSetting(s) ==
    JObj(Field("enable", JBool(s.enable)) \o Field("enable_text", JBool(s.enable_text)))
SerOpenTrackingSetting(s) ==
    JObj(Field("enable", JBool(s.enable))
         \o Field("substitution_tag", JStr(s.substitution_tag)))
SerSubscriptionTrackingSetting(s) ==
    JObj(Field("enable", JBool(s.enable))
         \o Field("text", SerOption(s.text, JStr(s.text[1])))
         \o Field("html", SerOption(s.html, JStr(s.html[1])))
         \o Field("substitution_tag", JStr(s.substitution_tag)))
SerGaTrackingSetting(s) ==
    JObj(Field("enable", JBool(s.enable))
         \o Field("utm_source", SerOption(s.utm_source, JStr(s.utm_source[1])))
         \o Field("utm_medium", SerOption(s.utm_medium, JStr(s.utm_medium[1])))
         \o Field("utm_term", SerOption(s.utm_term, JStr(s.utm_term[1])))
         \o Field("utm_content", SerOption(s.utm_content, JStr(s.utm_content[1])))
         \o Field("utm_campaign", SerOption(s.utm_campaign, JStr(s.utm_campaign[1]))))
\* #[derive(Serialize)] struct TrackingSettings: no field carries skip_serializing_if.
SerTrackingSettings(ts) ==
    JObj(Field("click_tracking",
                SerOption(ts.click_tracking, SerClickTrackingSetting(ts.click_tracking[1])))
         \o Field("open_tracking",
                     SerOption(ts.open_tracking, SerOpenTrackingSetting(ts.open_tracking[1])))
         \o Field("subscription_tracking",
                  SerOption(ts.subscription_tracking, SerSubscriptionTrackingSetting(ts.subscription_tracking[1])))
         \o Field("ganalytics",
                     SerOption(ts.ganalytics, SerGaTrackingSetting(ts.ganalytics[1]))))

(***************************************************************************)
(* personalization.rs                                                      *)
(***************************************************************************)
\* #[derive(Default)]: empty lists, None, and four new HashMaps, each with the
\* RandomState it draws; seeds gives the seed of each.
PersonalizationBuilder_default(seeds) ==
    [to |-> <<>>, cc |-> <<>>, bcc |-> <<>>, subject |-> None,
     headers |-> HashMap_new(seeds.headers),
     substitutions |-> HashMap_new(seeds.substitutions),
     dynamic_template_data |-> HashMap_new(seeds.dynamic_template_data),
     custom_args |-> HashMap_new(seeds.custom_args),
     send_at |-> None]
\* Mutant: to() puts the contact in front of the list.
Mut_PersonalizationBuilder_to(self, c) == [self EXCEPT !.to = <<c>> \o @]
PersonalizationBuilder_to(self, c) == [self EXCEPT !.to = Append(@, c)]
PersonalizationBuilder_cc(self, c) == [self EXCEPT !.cc = Append(@, c)]
PersonalizationBuilder_bcc(self, c) == [self EXCEPT !.bcc = Append(@, c)]
PersonalizationBuilder_subject(self, subject) == [self EXCEPT !.subject = Some(subject)]
PersonalizationBuilder_header(self, key, value) ==
    [self EXCEPT !.headers = HashMap_insert(@, key, value)]
\* Mutant: the entries given are added to the headers already there.
Mut_PersonalizationBuilder_headers(self, data) ==
    [self EXCEPT !.headers.m =
        [x \in DOMAIN @ \cup DOMAIN data.m |->
            IF x \in DOMAIN data.m THEN data.m[x] ELSE @[x]]]
PersonalizationBuilder_headers(self, data) == [self EXCEPT !.headers = data]
PersonalizationBuilder_substitution(self, key, value) ==
    [self EXCEPT !.substitutions = HashMap_insert(@, key, value)]
PersonalizationBuilder_dynamic_template_datum(self, key, value) ==
    [self EXCEPT !.dynamic_template_data = HashMap_insert(@, key, value)]
PersonalizationBuilder_dynamic_template_data(self, data) ==
    [self EXCEPT !.dynamic_template_data = data]
PersonalizationBuilder_custom_arg(self, key, value) ==
    [self EXCEPT !.custom_args = HashMap_insert(@, key, value)]
PersonalizationBuilder_send_at(self, time) == [self EXCEPT !.send_at = Some(time)]

\* #[derive(Serialize)] struct Personalization, with the skip_serializing_if of each field.
SerPersonalization(p) ==
    JObj(FieldSkipIf(p.to = <<>>, "to", JArr([i \in DOMAIN p.to |-> SerContact(p.to[i])]))
         \o FieldSkipIf(p.cc = <<>>, "cc",
                     JArr([i \in DOMAIN p.cc |-> SerContact(p.cc[i])]))
         \o FieldSkipIf(p.bcc = <<>>, "bcc",
                     JArr([i \in DOMAIN p.bcc |-> SerContact(p.bcc[i])]))
         \o FieldSkipIf(p.subject = None, "subject",
                     SerOption(p.subject, JStr(p.subject[1])))
         \o FieldSkipIf(HashMap_is_empty(p.headers), "headers", SerHashMap(p.headers))
         \o FieldSkipIf(HashMap_is_empty(p.substitutions), "substitutions",
                        SerHashMap(p.substitutions))
         \o FieldSkipIf(HashMap_is_empty(p.dynamic_template_data), "dynamic_template_data",
                        SerHashMap(p.dynamic_template_data))
         \o FieldSkipIf(HashMap_is_empty(p.custom_args), "custom_args",
                        SerHashMap(p.custom_args))
         \o FieldSkipIf(p.send_at = None, "send_at",
                     SerOption(p.send_at, JNum(p.send_at[1]))))

(***************************************************************************)
(* message.rs                                                              *)
(***************************************************************************)
\* MessageBuilder::new: seeds gives the seed each HashMap::new() draws.
MessageBuilder_new(from, subject, seeds) ==
    [personalizations |-> <<>>, from |-> from, reply_to |-> None, subject |-> subject,
     content |-> <<>>, attachments |-> <<>>, template_id |-> None,
     sections |-> HashMap_new(seeds.sections),
     headers |-> HashMap_new(seeds.headers),
     categories |-> <<>>,
     custom_args |-> HashMap_new(seeds.custom_args),
     send_at |-> None, batch_id |-> None, asm |-> None, ip_pool_name |-> None,
     mail_settings |-> None, tracking_settings |-> None]
\* Mutant: a personalization with a subject of its own also changes the subject of
\* the message.
Mut_MessageBuilder_personalization(self, per) ==
    [self EXCEPT !.personalizations = Append(@, per),
                 !.subject = IF per.subject = None THEN @ ELSE per.subject[1]]
MessageBuilder_personalization(self, per) ==
    [self EXCEPT !.personalizations = Append(@, per)]
\* Mutant: the list given is added to the personalizations already there.
Mut_MessageBuilder_personalizations(self, data) ==
    [self EXCEPT !.personalizations = @ \o data]
MessageBuilder_personalizations(self, data) == [self EXCEPT !.personalizations = data]
MessageBuilder_reply_to(self, c) == [self EXCEPT !.reply_to = Some(c)]
MessageBuilder_content(self, c) == [self EXCEPT !.content = Append(@, c)]
MessageBuilder_attachment(self, a) == [self EXCEPT !.attachments = Append(@, a)]
\* Mutant: setting the template id also clears the batch id.
Mut_MessageBuilder_template_id(self, id) ==
    [self EXCEPT !.template_id = Some(id), !.batch_id = None]
MessageBuilder_template_id(self, id) == [self EXCEPT !.template_id = Some(id)]
MessageBuilder_section(self, key, value) ==
    [self EXCEPT !.sections = HashMap_insert(@, key, value)]
MessageBuilder_header(self, key, value) ==
    [self EXCEPT !.headers = HashMap_insert(@, key, value)]
MessageBuilder_category(self, category) == [self EXCEPT !.categories = Append(@, category)]
MessageBuilder_custom_arg(self, key, value) ==
    [self EXCEPT !.custom_args = HashMap_insert(@, key, value)]
MessageBuilder_send_at(self, time) == [self EXCEPT !.send_at = Some(time)]
MessageBuilder_batch_id(self, id) == [self EXCEPT !.batch_id = Some(id)]
MessageBuilder_asm(self, a) == [self EXCEPT !.asm = Some(a)]
MessageBuilder_ip_pool_name(self, name) == [self EXCEPT !.ip_pool_name = Some(name)]
MessageBuilder_mail_settings(self, settings) == [self EXCEPT !.mail_settings = Some(settings)]
MessageBuilder_tracking_settings(self, settings) ==
    [self EXCEPT !.tracking_settings = Some(settings)]

\* #[derive(Serialize)] struct Message, with the skip_serializing_if of each field.
SerMessage(m) ==
    JObj(FieldSkipIf(m.personalizations = <<>>, "personalizations",
                     JArr([i \in DOMAIN m.personalizations |-> SerPersonalization(m.personalizations[i])]))
         \o Field("from", SerContact(m.from))
         \o FieldSkipIf(m.reply_to = None, "reply_to",
                     SerOption(m.reply_to, SerContact(m.reply_to[1])))
         \o Field("subject", JStr(m.subject))
         \o FieldSkipIf(m.content = <<>>, "content",
                     JArr([i \in DOMAIN m.content |-> SerContent(m.content[i])]))
         \o FieldSkipIf(m.attachments = <<>>, "attachments",
                        JArr([i \in DOMAIN m.attachments |-> SerAttachment(m.attachments[i])]))
         \o FieldSkipIf(m.template_id = None, "template_id",
                     SerOption(m.template_id, JStr(m.template_id[1])))
         \o FieldSkipIf(HashMap_is_empty(m.sections), "sections", SerHashMap(m.sections))
         \o FieldSkipIf(HashMap_is_empty(m.headers), "headers", SerHashMap(m.headers))
         \o FieldSkipIf(m.categories = <<>>, "categories",
                     JArr([i \in DOMAIN m.categories |-> JStr(m.categories[i])]))
         \o FieldSkipIf(HashMap_is_empty(m.custom_args), "custom_args",
                        SerHashMap(m.custom_args))
         \o FieldSkipIf(m.send_at = None, "send_at",
                     SerOption(m.send_at, JNum(m.send_at[1])))
         \o FieldSkipIf(m.batch_id = None, "batch_id",
                     SerOption(m.batch_id, JStr(m.batch_id[1])))
         \o FieldSkipIf(m.asm = None, "asm", SerOption(m.asm, SerAsm(m.asm[1])))
         \o FieldSkipIf(m.ip_pool_name = None, "ip_pool_name",
                        SerOption(m.ip_pool_name, JStr(m.ip_pool_name[1])))
         \o FieldSkipIf(m.mail_settings = None, "mail_settings",
                        SerOption(m.mail_settings, SerMailSettings(m.mail_settings[1])))
         \o FieldSkipIf(m.tracking_settings = None, "tracking_settings",
                        SerOption(m.tracking_settings, SerTrackingSettings(m.tracking_settings[1]))))
\* What a call that panics produces: no value.
Panic == [t |-> "panic"]
\* Mutant: a Message without a personalization is refused.
Mut_serde_json_to_string(value, defect) ==
    IF defect \/ value.personalizations = <<>>
    THEN [ok |-> FALSE] ELSE [ok |-> TRUE, v |-> SerMessage(value)]
\* serde_json::to_string(&value): Ok(text) for a Message, whose derived Serialize
\* cannot fail (String keys, no fallible impl); Err only through a defect in the
\* serializer, which defect stands for.
serde_json_to_string(value, defect) ==
    IF defect THEN [ok |-> FALSE] ELSE [ok |-> TRUE, v |-> SerMessage(value)]
\* Mutant: an Err is swallowed and an empty string returned.
Mut_Result_expect(r) == IF r.ok THEN r.v ELSE JStr("")
\* Result::expect: the value of Ok, a panic on Err.
Result_expect(r) == IF r.ok THEN r.v ELSE Panic
\* Message::to_json
Message_to_json(self) == Result_expect(serde_json_to_string(self, FALSE))

(***************************************************************************)
(* The state machine.  One chain XBuilder::new(..).m1(..).build() is in    *)
(* progress at a time; the value it returns is held until it is dropped.   *)
(***************************************************************************)
\* No builder in progress, no value built.
NoneOfEach ==
    [contact |-> None, attachment |-> None, asm |-> None, ga |-> None, mail |-> None,
     track |-> None, pers |-> None, message |-> None, twin |-> None]
Init ==
    /\ builder = NoneOfEach /\ built = NoneOfEach
    /\ json = None /\ twinJson = None
    /\ called = {} /\ calls = 0
Idle == builder = NoneOfEach /\ built = NoneOfEach

\* ---- ContactBuilder
ContactNew ==
    /\ Idle
    /\ \E email \in Emails :
         builder' = [builder EXCEPT !.contact = Some(ContactBuilder_new(email))]
    /\ called' = {}
    /\ UNCHANGED <<built, json, twinJson, calls>>
ContactName ==
    /\ builder.contact # None
    /\ \E name \in Names :
         builder' = [builder EXCEPT !.contact = Some(ContactBuilder_name(@[1], name))]
    /\ called' = called \cup {"name"}
    /\ UNCHANGED <<built, json, twinJson, calls>>
ContactBuild ==
    /\ builder.contact # None
    /\ built' = [built EXCEPT !.contact = Some(builder.contact[1])]
    /\ builder' = [builder EXCEPT !.contact = None]
    /\ UNCHANGED <<json, twinJson, called, calls>>

\* ---- AttachmentBuilder
AttachmentNew ==
    /\ Idle
    /\ builder' =
         [builder EXCEPT !.attachment = Some(AttachmentBuilder_new("SGVsbG8=", "file.txt"))]
    /\ called' = {}
    /\ UNCHANGED <<built, json, twinJson, calls>>
AttachmentType ==
    /\ builder.attachment # None
    /\ builder' =
         [builder EXCEPT !.attachment =
            Some(AttachmentBuilder_attachment_type(@[1], "text/plain"))]
    /\ called' = called \cup {"attachment_type"}
    /\ UNCHANGED <<built, json, twinJson, calls>>
AttachmentDisposition ==
    /\ builder.attachment # None
    /\ builder' =
         [builder EXCEPT !.attachment = Some(AttachmentBuilder_disposition(@[1], "inline"))]
    /\ called' = called \cup {"disposition"}
    /\ UNCHANGED <<built, json, twinJson, calls>>
AttachmentContentId ==
    /\ builder.attachment # None
    /\ builder' =
         [builder EXCEPT !.attachment = Some(AttachmentBuilder_content_id(@[1], "id"))]
    /\ called' = called \cup {"content_id"}
    /\ UNCHANGED <<built, json, twinJson, calls>>
AttachmentBuild ==
    /\ builder.attachment # None
    /\ built' = [built EXCEPT !.attachment = Some(builder.attachment[1])]
    /\ builder' = [builder EXCEPT !.attachment = None]
    /\ UNCHANGED <<json, twinJson, called, calls>>

\* ---- AsmBuilder
AsmNew ==
    /\ Idle
    /\ \E group_id \in Int32s :
         builder' = [builder EXCEPT !.asm = Some(AsmBuilder_new(group_id))]
    /\ called' = {}
    /\ UNCHANGED <<built, json, twinJson, calls>>
AsmGroupToDisplay ==
    /\ builder.asm # None
    /\ Len(builder.asm[1].groups_to_display) < MaxList
    /\ \E group \in Int32s :
         builder' = [builder EXCEPT !.asm = Some(AsmBuilder_group_to_display(@[1], group))]
    /\ called' = called \cup {"group_to_display"}
    /\ UNCHANGED <<built, json, twinJson, calls>>
AsmBuild ==
    /\ builder.asm # None
    /\ built' = [built EXCEPT !.asm = Some(builder.asm[1])]
    /\ builder' = [builder EXCEPT !.asm = None]
    /\ UNCHANGED <<json, twinJson, called, calls>>

\* ---- GaTrackingSettingBuilder
GaDefault ==
    /\ Idle
    /\ builder' = [builder EXCEPT !.ga = Some(GaTrackingSettingBuilder_default)]
    /\ called' = {}
    /\ UNCHANGED <<built, json, twinJson, calls>>
GaUtmSource ==
    /\ builder.ga # None
    /\ builder' =
         [builder EXCEPT !.ga = Some(GaTrackingSettingBuilder_utm_source(@[1], "utm"))]
    /\ called' = called \cup {"utm_source"}
    /\ UNCHANGED <<built, json, twinJson, calls>>
GaUtmMedium ==
    /\ builder.ga # None
    /\ builder' =
         [builder EXCEPT !.ga = Some(GaTrackingSettingBuilder_utm_medium(@[1], "utm"))]
    /\ called' = called \cup {"utm_medium"}
    /\ UNCHANGED <<built, json, twinJson, calls>>
GaUtmTerm ==
    /\ builder.ga # None
    /\ builder' =
         [builder EXCEPT !.ga = Some(GaTrackingSettingBuilder_utm_term(@[1], "utm"))]
    /\ called' = called \cup {"utm_term"}
    /\ UNCHANGED <<built, json, twinJson, calls>>
GaUtmContent ==
    /\ builder.ga # None
    /\ builder' =
         [builder EXCEPT !.ga = Some(GaTrackingSettingBuilder_utm_content(@[1], "utm"))]
    /\ called' = called \cup {"utm_content"}
    /\ UNCHANGED <<built, json, twinJson, calls>>
GaUtmCampaign ==
    /\ builder.ga # None
    /\ builder' =
         [builder EXCEPT !.ga = Some(GaTrackingSettingBuilder_utm_campaign(@[1], "utm"))]
    /\ called' = called \cup {"utm_campaign"}
    /\ UNCHANGED <<built, json, twinJson, calls>>
GaBuild ==
    /\ builder.ga # None
    /\ built' = [built EXCEPT !.ga = Some(builder.ga[1])]
    /\ builder' = [builder EXCEPT !.ga = None]
    /\ UNCHANGED <<json, twinJson, called, calls>>

\* ---- MailSettingsBuilder
MailDefault ==
    /\ Idle
    /\ builder' = [builder EXCEPT !.mail = Some(MailSettingsBuilder_default)]
    /\ called' = {}
    /\ UNCHANGED <<built, json, twinJson, calls>>
MailBcc ==
    /\ builder.mail # None
    /\ \E email \in Emails :
         builder' = [builder EXCEPT !.mail = Some(MailSettingsBuilder_bcc(@[1], email))]
    /\ called' = called \cup {"bcc"}
    /\ UNCHANGED <<built, json, twinJson, calls>>
MailBypassListManagement ==
    /\ builder.mail # None
    /\ builder' =
         [builder EXCEPT !.mail = Some(MailSettingsBuilder_bypass_list_management(@[1]))]
    /\ called' = called \cup {"bypass_list_management"}
    /\ UNCHANGED <<built, json, twinJson, calls>>
MailFooter ==
    /\ builder.mail # None
    /\ \E text \in OptionsOf({"text"}), html \in OptionsOf({"<p>html</p>"}) :
         builder' =
           [builder EXCEPT !.mail = Some(MailSettingsBuilder_footer(@[1], text, html))]
    /\ called' = called \cup {"footer"}
    /\ UNCHANGED <<built, json, twinJson, calls>>
MailSandboxMode ==
    /\ builder.mail # None
    /\ builder' = [builder EXCEPT !.mail = Some(MailSettingsBuilder_sandbox_mode(@[1]))]
    /\ called' = called \cup {"sandbox_mode"}
    /\ UNCHANGED <<built, json, twinJson, calls>>
MailSpamCheck ==
    /\ builder.mail # None
    /\ \E threshold \in OptionsOf(Int32s), post_to_url \in OptionsOf({"http://url"}) :
         builder' =
           [builder EXCEPT !.mail =
              Some(MailSettingsBuilder_spam_check(@[1], threshold, post_to_url))]
    /\ called' = called \cup {"spam_check"}
    /\ UNCHANGED <<built, json, twinJson, calls>>
MailBuild ==
    /\ builder.mail # None
    /\ built' = [built EXCEPT !.mail = Some(builder.mail[1])]
    /\ builder' = [builder EXCEPT !.mail = None]
    /\ UNCHANGED <<json, twinJson, called, calls>>

\* ---- TrackingSettingsBuilder
TrackDefault ==
    /\ Idle
    /\ builder' = [builder EXCEPT !.track = Some(TrackingSettingsBuilder_default)]
    /\ called' = {}
    /\ UNCHANGED <<built, json, twinJson, calls>>
TrackClickTracking ==
    /\ builder.track # None
    /\ \E enable_text \in BOOLEAN :
         builder' =
           [builder EXCEPT !.track =
              Some(TrackingSettingsBuilder_click_tracking(@[1], enable_text))]
    /\ called' = called \cup {"click_tracking"}
    /\ UNCHANGED <<built, json, twinJson, calls>>
TrackOpenTracking ==
    /\ builder.track # None
    /\ builder' =
         [builder EXCEPT !.track =
            Some(TrackingSettingsBuilder_open_tracking(@[1], "[tag]"))]
    /\ called' = called \cup {"open_tracking"}
    /\ UNCHANGED <<built, json, twinJson, calls>>
TrackSubstitutionTag ==
    /\ builder.track # None
    /\ \E text \in OptionsOf({"text"}), html \in OptionsOf({"<p>html</p>"}) :
         builder' =
           [builder EXCEPT !.track =
              Some(TrackingSettingsBuilder_substitution_tag(@[1], "[tag]", text, html))]
    /\ called' = called \cup {"substitution_tag"}
    /\ UNCHANGED <<built, json, twinJson, calls>>
TrackBuild ==
    /\ builder.track # None
    /\ built' = [built EXCEPT !.track = Some(builder.track[1])]
    /\ builder' = [builder EXCEPT !.track = None]
    /\ UNCHANGED <<json, twinJson, called, calls>>

\* ---- the value a chain returned goes out of scope
Drop ==
    /\ built # NoneOfEach
    /\ built' = NoneOfEach
    /\ json' = None /\ twinJson' = None
    /\ called' = {} /\ calls' = 0
    /\ UNCHANGED builder

NextNodes ==
    \/ ContactNew \/ ContactName \/ ContactBuild
    \/ AttachmentNew \/ AttachmentType \/ AttachmentDisposition \/ AttachmentContentId
    \/ AttachmentBuild
    \/ AsmNew \/ AsmGroupToDisplay \/ AsmBuild
    \/ GaDefault \/ GaUtmSource \/ GaUtmMedium \/ GaUtmTerm \/ GaUtmContent
    \/ GaUtmCampaign \/ GaBuild
    \/ MailDefault \/ MailBcc \/ MailBypassListManagement \/ MailFooter
    \/ MailSandboxMode \/ MailSpamCheck \/ MailBuild
    \/ TrackDefault \/ TrackClickTracking \/ TrackOpenTracking \/ TrackSubstitutionTag
    \/ TrackBuild
    \/ Drop
SpecNodes == Init /\ [][NextNodes]_vars

(***************************************************************************)
(* The PersonalizationBuilder chain (SpecPers); its Contact arguments are  *)
(* values ContactBuilder chains return.                                    *)
(***************************************************************************)
\* ContactBuilder::new(..).name(..).build() of the crate's example.
FromContact == ContactBuilder_name(ContactBuilder_new("from@example.com"), "from")
ToContact == ContactBuilder_name(ContactBuilder_new("to@example.com"), "to")
\* A Contact with a name, and one without.
ContactArgs == {ToContact, ContactBuilder_new("to@example.com")}
\* The HashMaps passed to the bulk setters: empty, one entry, two entries.
HashMapArgs ==
    {HashMap_new(0), HashMap_insert(HashMap_new(0), "a", "x"),
     HashMap_insert(HashMap_insert(HashMap_new(1), "a", "x"), "b", "y")}

\* One configuration call: m is the method's name, next the builder it returns.
PersCall(m, next) ==
    /\ builder.pers # None
    /\ calls < MaxCalls
    /\ builder' = [builder EXCEPT !.pers = Some(next)]
    /\ called' = called \cup {m}
    /\ calls' = calls + 1
    /\ UNCHANGED <<built, json, twinJson>>
PersDefault ==
    /\ Idle
    /\ \E seeds \in [headers : Seeds, substitutions : Seeds,
                     dynamic_template_data : Seeds, custom_args : Seeds] :
         builder' = [builder EXCEPT !.pers = Some(PersonalizationBuilder_default(seeds))]
    /\ called' = {} /\ calls' = 0
    /\ UNCHANGED <<built, json, twinJson>>
PersTo ==
    /\ builder.pers # None
    /\ \E c \in ContactArgs :
         PersCall("to", PersonalizationBuilder_to(builder.pers[1], c))
PersCc ==
    /\ builder.pers # None
    /\ \E c \in ContactArgs :
         PersCall("cc", PersonalizationBuilder_cc(builder.pers[1], c))
PersBcc ==
    /\ builder.pers # None
    /\ \E c \in ContactArgs :
         PersCall("bcc", PersonalizationBuilder_bcc(builder.pers[1], c))
PersSubject ==
    /\ builder.pers # None
    /\ \E subject \in {"Subject Line!", "Other subject"} :
         PersCall("subject", PersonalizationBuilder_subject(builder.pers[1], subject))
PersHeader ==
    /\ builder.pers # None
    /\ \E k \in MapKeys, v \in MapValues :
         PersCall("header", PersonalizationBuilder_header(builder.pers[1], k, v))
PersHeaders ==
    /\ builder.pers # None
    /\ \E data \in HashMapArgs :
         PersCall("headers", PersonalizationBuilder_headers(builder.pers[1], data))
PersSubstitution ==
    /\ builder.pers # None
    /\ \E k \in MapKeys, v \in MapValues :
         PersCall("substitution",
             PersonalizationBuilder_substitution(builder.pers[1], k, v))
PersDynamicTemplateDatum ==
    /\ builder.pers # None
    /\ \E k \in MapKeys, v \in MapValues :
         PersCall("dynamic_template_datum",
             PersonalizationBuilder_dynamic_template_datum(builder.pers[1], k, v))
PersDynamicTemplateData ==
    /\ builder.pers # None
    /\ \E data \in HashMapArgs :
         PersCall("dynamic_template_data",
             PersonalizationBuilder_dynamic_template_data(builder.pers[1], data))
PersCustomArg ==
    /\ builder.pers # None
    /\ \E k \in MapKeys, v \in MapValues :
         PersCall("custom_arg", PersonalizationBuilder_custom_arg(builder.pers[1], k, v))
PersSendAt ==
    /\ builder.pers # None
    /\ \E time \in Int32s :
         PersCall("send_at", PersonalizationBuilder_send_at(builder.pers[1], time))
PersBuild ==
    /\ builder.pers # None
    /\ built' = [built EXCEPT !.pers = Some(builder.pers[1])]
    /\ builder' = [builder EXCEPT !.pers = None]
    /\ UNCHANGED <<json, twinJson, called, calls>>

NextPers ==
    \/ PersDefault \/ PersTo \/ PersCc \/ PersBcc \/ PersSubject
    \/ PersHeader \/ PersHeaders \/ PersSubstitution
    \/ PersDynamicTemplateDatum \/ PersDynamicTemplateData
    \/ PersCustomArg \/ PersSendAt \/ PersBuild
SpecPers == Init /\ [][NextPers]_vars

(***************************************************************************)
(* The MessageBuilder chain (Spec), followed by build() and to_json(); its *)
(* node arguments are values the node builders return.  When a second      *)
(* chain was started (SpecTwin), every call is made on both chains with    *)
(* equal arguments.                                                        *)
(***************************************************************************)
\* PersonalizationBuilder::default().to(to).build() of the crate's example.
ZeroSeeds ==
    [headers |-> 0, substitutions |-> 0, dynamic_template_data |-> 0, custom_args |-> 0]
PersTo1 == PersonalizationBuilder_to(PersonalizationBuilder_default(ZeroSeeds), ToContact)
\* PersonalizationBuilder::default().subject("Override").build(): a subject of its
\* own, and no recipient.
PersOverride ==
    PersonalizationBuilder_subject(PersonalizationBuilder_default(ZeroSeeds), "Override")
\* MailSettingsBuilder::default().sandbox_mode().build() of the crate's example.
SandboxSettings == MailSettingsBuilder_sandbox_mode(MailSettingsBuilder_default)
\* TrackingSettingsBuilder::default().click_tracking(false).build()
ClickSettings == TrackingSettingsBuilder_click_tracking(TrackingSettingsBuilder_default, FALSE)
\* The seeds the three HashMap::new() of one MessageBuilder::new can draw.
MessageSeeds == [sections : Seeds, headers : Seeds, custom_args : Seeds]

\* The chains in progress: the builder, and the second builder when there is one.
Chains == builder.message \o builder.twin
\* One configuration call, made on every chain in progress: m is the method's name,
\* nexts the builder each chain's call returns.
MessageCall(m, nexts) ==
    /\ builder.message # None
    /\ calls < MaxCalls
    /\ builder' = [builder EXCEPT !.message = Some(nexts[1]),
                                  !.twin = IF @ = None THEN None ELSE Some(nexts[2])]
    /\ called' = called \cup {m}
    /\ calls' = calls + 1
    /\ UNCHANGED <<built, json, twinJson>>

MessageNew ==
    /\ Idle
    /\ \E seeds \in MessageSeeds :
         builder' = [builder EXCEPT !.message =
                        Some(MessageBuilder_new(FromContact, "Subject Line!", seeds))]
    /\ called' = {} /\ calls' = 0
    /\ UNCHANGED <<built, json, twinJson>>
\* The same constructor call on two chains: each draws the seeds of its own maps.
MessageNewTwice ==
    /\ Idle
    /\ \E seeds \in MessageSeeds, seeds2 \in MessageSeeds :
         builder' =
           [builder EXCEPT
               !.message = Some(MessageBuilder_new(FromContact, "Subject Line!", seeds)),
               !.twin = Some(MessageBuilder_new(FromContact, "Subject Line!", seeds2))]
    /\ called' = {} /\ calls' = 0
    /\ UNCHANGED <<built, json, twinJson>>
MessagePersonalization ==
    /\ builder.message # None
    /\ \E per \in {PersTo1, PersonalizationBuilder_default(ZeroSeeds), PersOverride} :
         MessageCall("personalization",
             [i \in DOMAIN Chains |-> MessageBuilder_personalization(Chains[i], per)])
MessagePersonalizations ==
    /\ builder.message # None
    /\ \E data \in {<<>>, <<PersTo1>>} :
         MessageCall("personalizations",
             [i \in DOMAIN Chains |-> MessageBuilder_personalizations(Chains[i], data)])
MessageReplyTo ==
    /\ builder.message # None
    /\ \E c \in ContactArgs :
         MessageCall("reply_to",
             [i \in DOMAIN Chains |-> MessageBuilder_reply_to(Chains[i], c)])
MessageContent ==
    /\ builder.message # None
    /\ \E c \in {Content_new("text/plain", "hello"),
                 Content_new("text/html", "<p>hello</p>")} :
         MessageCall("content",
             [i \in DOMAIN Chains |-> MessageBuilder_content(Chains[i], c)])
MessageAttachment ==
    /\ builder.message # None
    /\ \E a \in {AttachmentBuilder_new("SGVsbG8=", "file.txt")} :
         MessageCall("attachment",
             [i \in DOMAIN Chains |-> MessageBuilder_attachment(Chains[i], a)])
MessageTemplateId ==
    /\ builder.message # None
    /\ \E id \in {"SENDGRID-TEMPLATE-ID", "OTHER-TEMPLATE-ID"} :
         MessageCall("template_id",
             [i \in DOMAIN Chains |-> MessageBuilder_template_id(Chains[i], id)])
MessageSection ==
    /\ builder.message # None
    /\ \E k \in MapKeys, v \in MapValues :
         MessageCall("section",
             [i \in DOMAIN Chains |-> MessageBuilder_section(Chains[i], k, v)])
MessageHeader ==
    /\ builder.message # None
    /\ \E k \in MapKeys, v \in MapValues :
         MessageCall("header",
             [i \in DOMAIN Chains |-> MessageBuilder_header(Chains[i], k, v)])
MessageCategory ==
    /\ builder.message # None
    /\ \E category \in {"cat1", "cat2"} :
         MessageCall("category",
             [i \in DOMAIN Chains |-> MessageBuilder_category(Chains[i], category)])
MessageCustomArg ==
    /\ builder.message # None
    /\ \E k \in MapKeys, v \in MapValues :
         MessageCall("custom_arg",
             [i \in DOMAIN Chains |-> MessageBuilder_custom_arg(Chains[i], k, v)])
MessageSendAt ==
    /\ builder.message # None
    /\ \E time \in Int32s :
         MessageCall("send_at",
             [i \in DOMAIN Chains |-> MessageBuilder_send_at(Chains[i], time)])
MessageBatchId ==
    /\ builder.message # None
    /\ \E id \in {"batch", "batch2"} :
         MessageCall("batch_id",
             [i \in DOMAIN Chains |-> MessageBuilder_batch_id(Chains[i], id)])
MessageAsm ==
    /\ builder.message # None
    /\ \E a \in {AsmBuilder_new(1), AsmBuilder_group_to_display(AsmBuilder_new(1), 5)} :
         MessageCall("asm", [i \in DOMAIN Chains |-> MessageBuilder_asm(Chains[i], a)])
MessageIpPoolName ==
    /\ builder.message # None
    /\ \E name \in {"pool", "pool2"} :
         MessageCall("ip_pool_name",
             [i \in DOMAIN Chains |-> MessageBuilder_ip_pool_name(Chains[i], name)])
MessageMailSettings ==
    /\ builder.message # None
    /\ \E settings \in {MailSettingsBuilder_default, SandboxSettings} :
         MessageCall("mail_settings",
             [i \in DOMAIN Chains |-> MessageBuilder_mail_settings(Chains[i], settings)])
MessageTrackingSettings ==
    /\ builder.message # None
    /\ \E settings \in {ClickSettings, TrackingSettingsBuilder_default} :
         MessageCall("tracking_settings",
             [i \in DOMAIN Chains |-> MessageBuilder_tracking_settings(Chains[i], settings)])
\* Mutant: build() takes the builder by reference and leaves it usable.
Mut_MessageBuild ==
    /\ builder.message # None
    /\ built.message = None
    /\ built' = [built EXCEPT !.message = Some(builder.message[1]), !.twin = builder.twin]
    /\ UNCHANGED <<builder, json, twinJson, called, calls>>
MessageBuild ==
    /\ builder.message # None
    /\ built' = [built EXCEPT !.message = Some(builder.message[1]), !.twin = builder.twin]
    /\ builder' = [builder EXCEPT !.message = None, !.twin = None]
    /\ UNCHANGED <<json, twinJson, called, calls>>
\* to_json(&self): the Message is only read.
\* Mutant: to_json takes the personalizations out of the Message it serializes.
Mut_MessageToJson ==
    /\ built.message # None
    /\ json' = Some(Message_to_json(built.message[1]))
    /\ twinJson' = IF built.twin = None THEN None ELSE Some(Message_to_json(built.twin[1]))
    /\ built' = [built EXCEPT !.message = Some([built.message[1] EXCEPT !.personalizations = <<>>])]
    /\ UNCHANGED <<builder, called, calls>>
MessageToJson ==
    /\ built.message # None
    /\ json' = Some(Message_to_json(built.message[1]))
    /\ twinJson' = IF built.twin = None THEN None ELSE Some(Message_to_json(built.twin[1]))
    /\ UNCHANGED <<builder, built, called, calls>>

MessageCalls ==
    \/ MessagePersonalization \/ MessagePersonalizations \/ MessageReplyTo
    \/ MessageContent \/ MessageAttachment \/ MessageTemplateId \/ MessageSection
    \/ MessageHeader \/ MessageCategory \/ MessageCustomArg \/ MessageSendAt
    \/ MessageBatchId \/ MessageAsm \/ MessageIpPoolName \/ MessageMailSettings
    \/ MessageTrackingSettings
Next == MessageNew \/ MessageCalls \/ MessageBuild \/ MessageToJson
Spec == Init /\ [][Next]_vars
NextTwin == MessageNewTwice \/ MessageCalls \/ MessageBuild \/ MessageToJson
SpecTwin == Init /\ [][NextTwin]_vars

\* Every builder of the crate: one chain at a time, of any kind.
SpecAll == Init /\ [][NextNodes \/ NextPers \/ Next]_vars

\* to_json(&self) when the serializer has a defect and reports an error.
MessageToJsonDefect ==
    /\ built.message # None
    /\ json' = Some(Result_expect(serde_json_to_string(built.message[1], TRUE)))
    /\ UNCHANGED <<builder, built, twinJson, called, calls>>
\* The MessageBuilder chain with a serializer that may be defective.
SpecDefect == Init /\ [][Next \/ MessageToJsonDefect]_vars

(***************************************************************************)
(* Claims about the node builders, under SpecNodes.                        *)
(***************************************************************************)
\* Reading a JSON object.
JKeys(j) == {j.o[i].k : i \in 1..Len(j.o)}
JHas(j, k) == k \in JKeys(j)
JGet(j, k) == j.o[CHOOSE i \in 1..Len(j.o) : j.o[i].k = k].v
\* The members of j whose value is null, an empty array or an empty object.
JNullKeys(j) == {j.o[i].k : i \in {n \in 1..Len(j.o) : j.o[n].v = JNull}}
JEmptyKeys(j) == {j.o[i].k : i \in {n \in 1..Len(j.o) :
                                     j.o[n].v = JArr(<<>>) \/ j.o[n].v = JObj(<<>>)}}

MailFields == {"bcc", "bypass_list_management", "footer", "sandbox_mode", "spam_check"}
TrackFields == {"click_tracking", "open_tracking", "subscription_tracking", "ganalytics"}
\* The builder method that sets a sub-setting: the method of the same name, but
\* substitution_tag for subscription_tracking. No method assigns ganalytics.
MethodOf(f) == IF f = "subscription_tracking" THEN "substitution_tag" ELSE f
TrackMethods == {"click_tracking", "open_tracking", "substitution_tag"}

\* C2: in the serialized MailSettings / TrackingSettings returned by build(), a
\* sub-setting whose builder method was never called is omitted: it is not a key of
\* the object (and so not a key holding null).
C2_SettingsOmitUnset ==
    /\ built.mail # None =>
         \A f \in MailFields :
            MethodOf(f) \notin called => ~JHas(SerMailSettings(built.mail[1]), f)
    /\ built.track # None =>
         \A f \in TrackFields :
            MethodOf(f) \notin called => ~JHas(SerTrackingSettings(built.track[1]), f)

\* C3: a Contact built without name() serializes with the only key email; an
\* Attachment built without any optional call with only content and filename; a
\* footer or spam_check enabled with None parameters, and a GaTrackingSetting built
\* without any utm_* call, with no member holding null.
C3_LeafMinimality ==
    /\ (built.contact # None /\ "name" \notin called) =>
         JKeys(SerContact(built.contact[1])) = {"email"}
    /\ (built.attachment # None /\ called = {}) =>
         JKeys(SerAttachment(built.attachment[1])) = {"content", "filename"}
    /\ (built.ga # None /\ called = {}) =>
         JNullKeys(SerGaTrackingSetting(built.ga[1])) = {}
    /\ (built.mail # None /\ built.mail[1].footer =
                                Some([enable |-> TRUE, text |-> None, html |-> None])) =>
         JNullKeys(SerFooterSetting(built.mail[1].footer[1])) = {}
    /\ (built.mail # None /\ built.mail[1].spam_check =
                                Some([enable |-> TRUE, threshold |-> None, post_to_url |-> None])) =>
         JNullKeys(SerSpamCheckSetting(built.mail[1].spam_check[1])) = {}

\* C6: an Asm built by AsmBuilder::new(group_id).build() with no group_to_display
\* call serializes without the key groups_to_display.
C6_AsmOmitsEmptyGroups ==
    (built.asm # None /\ "group_to_display" \notin called) =>
        ~JHas(SerAsm(built.asm[1]), "groups_to_display")

\* Every sub-setting of s (a MailSettings or TrackingSettings) that is present has
\* enable = true, in the struct and in its serialized object.
AllEnabled(s, fields, ser) ==
    \A f \in fields :
        s[f] # None =>
            /\ s[f][1].enable = TRUE
            /\ JGet(JGet(ser, f), "enable") = JBool(TRUE)

\* C7: in every state of a MailSettingsBuilder, TrackingSettingsBuilder or
\* GaTrackingSettingBuilder chain, and in the value it builds, every sub-setting that
\* is present has enable = true, whatever parameters were passed; no serialized
\* sub-setting carries enable = false.
C7_EnableAlwaysTrue ==
    /\ builder.mail # None =>
         AllEnabled(builder.mail[1], MailFields, SerMailSettings(builder.mail[1]))
    /\ built.mail # None =>
         AllEnabled(built.mail[1], MailFields, SerMailSettings(built.mail[1]))
    /\ builder.track # None =>
         AllEnabled(builder.track[1], TrackFields, SerTrackingSettings(builder.track[1]))
    /\ built.track # None =>
         AllEnabled(built.track[1], TrackFields, SerTrackingSettings(built.track[1]))
    /\ builder.ga # None => builder.ga[1].enable = TRUE
    /\ built.ga # None =>
         /\ built.ga[1].enable = TRUE
         /\ JGet(SerGaTrackingSetting(built.ga[1]), "enable") = JBool(TRUE)

\* C7 witness: a MailSettings was built after footer(None, None) and
\* spam_check(None, None).
C7_Witness ==
    /\ built.mail # None
    /\ built.mail[1].footer = Some([enable |-> TRUE, text |-> None, html |-> None])
    /\ built.mail[1].spam_check =
         Some([enable |-> TRUE, threshold |-> None, post_to_url |-> None])

\* The settings struct of the chain in progress: in the builder, then as built.
MailCur == IF builder.mail # None THEN builder.mail ELSE built.mail
TrackCur == IF builder.track # None THEN builder.track ELSE built.track
\* Across one step of a chain, every sub-setting that was present stays present and
\* enabled.
StaysEnabled(cur, next, fields) ==
    (cur # None /\ next # None) =>
        \A f \in fields :
            cur[1][f] # None => (next[1][f] # None /\ next[1][f][1].enable = TRUE)
\* In a chain, a sub-setting that has a builder method is absent exactly when that
\* method was never called.
AbsentIffNeverCalled(cur, fields) ==
    cur # None =>
        \A f \in fields : (cur[1][f] = None) <=> (MethodOf(f) \notin called)

\* C8: once the builder method of a sub-setting has been called, no further builder
\* call (nor build) makes the sub-setting absent or sets its enable flag to false, and
\* a sub-setting is absent in the chain and in the built value if and only if its
\* method was never called.
C8_NoDisable ==
    /\ [][/\ StaysEnabled(MailCur, MailCur', MailFields)
          /\ StaysEnabled(TrackCur, TrackCur', TrackFields)]_vars
    /\ [](/\ AbsentIffNeverCalled(MailCur, MailFields)
          /\ AbsentIffNeverCalled(TrackCur, TrackFields \ {"ganalytics"}))

\* C8 witness: a TrackingSettings was built after click_tracking, open_tracking and
\* substitution_tag were all called on its builder, click_tracking last with false.
C8_Witness ==
    /\ built.track # None
    /\ called = TrackMethods
    /\ built.track[1].click_tracking = Some([enable |-> TRUE, enable_text |-> FALSE])
    /\ built.track[1].open_tracking # None

\* C9: every sub-setting has a builder method that enables it on its parent: once
\* every method of TrackingSettingsBuilder has been called (no call removes a
\* sub-setting, C8), the built TrackingSettings has each of its four sub-settings,
\* ganalytics included, present with enable = true; and likewise the five of
\* MailSettings.
C9_EverySubSettingHasMethod ==
    /\ (built.track # None /\ called = TrackMethods) =>
         \A f \in TrackFields :
            built.track[1][f] # None /\ built.track[1][f][1].enable = TRUE
    /\ (built.mail # None /\ called = MailFields) =>
         \A f \in MailFields :
            built.mail[1][f] # None /\ built.mail[1][f][1].enable = TRUE

\* No call sequence of TrackingSettingsBuilder sets ganalytics: it is None in every
\* state (the reachability C9 claims does not exist).
GanalyticsNeverSet ==
    /\ builder.track # None => builder.track[1].ganalytics = None
    /\ built.track # None => built.track[1].ganalytics = None

(***************************************************************************)
(* Claims about Personalization (SpecPers) and Message (Spec, SpecTwin).   *)
(***************************************************************************)
\* Whether field k of struct x holds something: an Option that is Some, a list or
\* a map that is not empty.
Holds(x, k, optionKeys, listKeys) ==
    IF k \in optionKeys THEN x[k] # None
    ELSE IF k \in listKeys THEN x[k] # <<>>
    ELSE DOMAIN x[k].m # {}

MessageOptionKeys ==
    {"reply_to", "template_id", "send_at", "batch_id", "asm", "ip_pool_name",
     "mail_settings", "tracking_settings"}
MessageListKeys == {"personalizations", "content", "attachments", "categories"}
MessageMapKeys == {"sections", "headers", "custom_args"}
MessageKeys == MessageOptionKeys \cup MessageListKeys \cup MessageMapKeys

\* The Message of the crate's doc example (lib.rs, examples/reqwest): the three calls
\* template_id, mail_settings, personalization on MessageBuilder::new(from, subject).
IsExampleMessage(m) ==
    /\ m.from = FromContact
    /\ m.subject = "Subject Line!"
    /\ called = {"template_id", "mail_settings", "personalization"}
    /\ calls = 3
    /\ m.template_id = Some("SENDGRID-TEMPLATE-ID")
    /\ m.mail_settings = Some(SandboxSettings)
    /\ m.personalizations = <<PersTo1>>

\* C1: to_json of the example Message is an object whose top-level keys are exactly
\* from, subject, personalizations, template_id and mail_settings, where
\* personalizations is [{"to":[{"email":"to@example.com","name":"to"}]}] and
\* mail_settings is exactly {"sandbox_mode":{"enable":true}}.
C1_EndToEnd ==
    (json # None /\ built.message # None /\ IsExampleMessage(built.message[1])) =>
        /\ JKeys(json[1]) =
             {"from", "subject", "personalizations", "template_id", "mail_settings"}
        /\ JGet(json[1], "from") =
             JObj(Field("email", JStr("from@example.com")) \o Field("name", JStr("from")))
        /\ JGet(json[1], "subject") = JStr("Subject Line!")
        /\ JGet(json[1], "template_id") = JStr("SENDGRID-TEMPLATE-ID")
        /\ JGet(json[1], "personalizations") =
             JArr(<< JObj(Field("to",
                       JArr(<< JObj(Field("email", JStr("to@example.com"))
                                    \o Field("name", JStr("to"))) >>))) >>)
        /\ JGet(json[1], "mail_settings") =
             JObj(Field("sandbox_mode", JObj(Field("enable", JBool(TRUE)))))

\* C4: in the output of to_json, each of the fifteen optional top-level keys is
\* present if and only if the Message's field holds a value (Some, a non-empty list, a
\* non-empty map); from and subject are present; and no top-level member is null, []
\* or {}.
C4_MessageOmission ==
    json # None =>
        /\ \A k \in MessageKeys :
              JHas(json[1], k)
                <=> Holds(built.message[1], k, MessageOptionKeys, MessageListKeys)
        /\ {"from", "subject"} \subseteq JKeys(json[1])
        /\ JNullKeys(json[1]) = {}
        /\ JEmptyKeys(json[1]) = {}
        /\ Len(json[1].o) = Cardinality(JKeys(json[1]))

\* C4 witness: to_json returned for a Message where personalizations(vec![]) left the
\* list empty, a header was inserted and a template id was set.
C4_Witness ==
    /\ json # None
    /\ called = {"personalizations", "header", "template_id"}
    /\ built.message[1].personalizations = <<>>
    /\ JKeys(json[1]) = {"from", "subject", "template_id", "headers"}

PersOptionKeys == {"subject", "send_at"}
PersListKeys == {"to", "cc", "bcc"}
PersMapKeys == {"headers", "substitutions", "dynamic_template_data", "custom_args"}
PersKeys == PersOptionKeys \cup PersListKeys \cup PersMapKeys

\* C5: in the serialized Personalization returned by build(), each of the nine keys
\* is present if and only if its field is set or its collection is non-empty, and no
\* member is null, [] or {}; PersonalizationBuilder::default().build() serializes to
\* {}, and so does a chain of bulk setters called with empty maps only.
C5_PersonalizationOmission ==
    built.pers # None =>
        LET j == SerPersonalization(built.pers[1]) IN
        /\ \A k \in PersKeys :
              JHas(j, k) <=> Holds(built.pers[1], k, PersOptionKeys, PersListKeys)
        /\ JKeys(j) \subseteq PersKeys
        /\ JNullKeys(j) = {}
        /\ JEmptyKeys(j) = {}
        /\ calls = 0 => j = JObj(<<>>)
        /\ (/\ called \subseteq {"headers", "dynamic_template_data"}
            /\ HashMap_is_empty(built.pers[1].headers)
            /\ HashMap_is_empty(built.pers[1].dynamic_template_data)) => j = JObj(<<>>)

\* C5 witness: a Personalization built after headers(empty map) and a to(contact):
\* the headers map is empty, the to list is not.
C5_Witness ==
    /\ built.pers # None
    /\ called = {"headers", "to"}
    /\ HashMap_is_empty(built.pers[1].headers)
    /\ JKeys(SerPersonalization(built.pers[1])) = {"to"}

\* C10: two chains given the same sequence of builder calls with equal arguments
\* return the same JSON text from to_json.
C10_SameCallsSameJson ==
    (json # None /\ twinJson # None) => json = twinJson

\* The part of C10 that the code keeps: the two outputs have the same members with
\* the same values at the top level, whatever their order inside a map.
SameMembers(j1, j2) ==
    /\ JKeys(j1) = JKeys(j2)
    /\ \A k \in JKeys(j1) :
          IF k \in MessageMapKeys
          THEN /\ JKeys(JGet(j1, k)) = JKeys(JGet(j2, k))
               /\ \A x \in JKeys(JGet(j1, k)) : JGet(JGet(j1, k), x) = JGet(JGet(j2, k), x)
          ELSE JGet(j1, k) = JGet(j2, k)
TwinSameMembers ==
    (json # None /\ twinJson # None) => SameMembers(json[1], twinJson[1])

(***************************************************************************)
(* Claims about every builder (SpecAll), about the overwriting setters of  *)
(* MessageBuilder (Spec) and of PersonalizationBuilder (SpecPers).         *)
(***************************************************************************)
\* A configuration call on the chain of kind k returned the builder next.
Returned(k, next) == builder[k] # None /\ builder'[k] = Some(next)
\* The array written under key k of the object j; a list that is skipped has none.
ArrayOf(j, k) == IF JHas(j, k) THEN JGet(j, k).a ELSE <<>>
\* Across an appending call, the array written for the list is the array written
\* before followed by the serialization of the argument.
GrowsBy(ser, ser2, key, elem) ==
    ArrayOf(ser2, key) = Append(ArrayOf(ser, key), elem)
\* The array written under key for the list, element by element in the list's order.
InListOrder(j, key, js) == ArrayOf(j, key) = js

\* C11: every appending call (to, cc, bcc of a Personalization; personalization,
\* content, attachment, category of a Message; group_to_display of an Asm) leaves the
\* serialized array as it was and adds the serialization of its argument at the end;
\* and the array written for a built value has one element per element of the list, in
\* the list's order: nothing is dropped, duplicated or reordered.
C11_ListOrder ==
    /\ [][/\ \A c \in ContactArgs :
             /\ Returned("pers", PersonalizationBuilder_to(builder.pers[1], c)) =>
                  GrowsBy(SerPersonalization(builder.pers[1]),
                          SerPersonalization(builder'.pers[1]), "to", SerContact(c))
             /\ Returned("pers", PersonalizationBuilder_cc(builder.pers[1], c)) =>
                  GrowsBy(SerPersonalization(builder.pers[1]),
                          SerPersonalization(builder'.pers[1]), "cc", SerContact(c))
             /\ Returned("pers", PersonalizationBuilder_bcc(builder.pers[1], c)) =>
                  GrowsBy(SerPersonalization(builder.pers[1]),
                          SerPersonalization(builder'.pers[1]), "bcc", SerContact(c))
          /\ \A p \in {PersTo1, PersonalizationBuilder_default(ZeroSeeds), PersOverride} :
             Returned("message", MessageBuilder_personalization(builder.message[1], p)) =>
               GrowsBy(SerMessage(builder.message[1]),
                       SerMessage(builder'.message[1]), "personalizations",
                       SerPersonalization(p))
          /\ \A c \in {Content_new("text/plain", "hello"),
                       Content_new("text/html", "<p>hello</p>")} :
             Returned("message", MessageBuilder_content(builder.message[1], c)) =>
               GrowsBy(SerMessage(builder.message[1]),
                       SerMessage(builder'.message[1]), "content", SerContent(c))
          /\ \A a \in {AttachmentBuilder_new("SGVsbG8=", "file.txt")} :
             Returned("message", MessageBuilder_attachment(builder.message[1], a)) =>
               GrowsBy(SerMessage(builder.message[1]),
                       SerMessage(builder'.message[1]), "attachments", SerAttachment(a))
          /\ \A c \in {"cat1", "cat2"} :
             Returned("message", MessageBuilder_category(builder.message[1], c)) =>
               GrowsBy(SerMessage(builder.message[1]),
                       SerMessage(builder'.message[1]), "categories", JStr(c))
          /\ \A g \in Int32s :
             Returned("asm", AsmBuilder_group_to_display(builder.asm[1], g)) =>
               GrowsBy(SerAsm(builder.asm[1]), SerAsm(builder'.asm[1]),
                       "groups_to_display", JNum(g))]_vars
    /\ [](/\ built.pers # None =>
             LET p == built.pers[1]  j == SerPersonalization(built.pers[1]) IN
             /\ InListOrder(j, "to", [i \in 1..Len(p.to) |-> SerContact(p.to[i])])
             /\ InListOrder(j, "cc", [i \in 1..Len(p.cc) |-> SerContact(p.cc[i])])
             /\ InListOrder(j, "bcc", [i \in 1..Len(p.bcc) |-> SerContact(p.bcc[i])])
          /\ json # None =>
             LET m == built.message[1] IN
             /\ InListOrder(json[1], "personalizations",
                    [i \in 1..Len(m.personalizations) |->
                        SerPersonalization(m.personalizations[i])])
             /\ InListOrder(json[1], "content",
                    [i \in 1..Len(m.content) |-> SerContent(m.content[i])])
             /\ InListOrder(json[1], "attachments",
                    [i \in 1..Len(m.attachments) |-> SerAttachment(m.attachments[i])])
             /\ InListOrder(json[1], "categories",
                    [i \in 1..Len(m.categories) |-> JStr(m.categories[i])])
          /\ built.asm # None =>
             InListOrder(SerAsm(built.asm[1]), "groups_to_display",
                 [i \in 1..Len(built.asm[1].groups_to_display) |->
                     JNum(built.asm[1].groups_to_display[i])]))

\* C11 witness: to(A), to(B), to(A) was built, and "to" is written as [A, B, A].
C11_Witness ==
    /\ built.pers # None
    /\ built.pers[1].to = <<ToContact, ContactBuilder_new("to@example.com"), ToContact>>
    /\ JGet(SerPersonalization(built.pers[1]), "to").a =
         << SerContact(ToContact), SerContact(ContactBuilder_new("to@example.com")),
            SerContact(ToContact) >>

\* The names the fields of struct x are written under: their own, but "type" for
\* c_type and a_type.
OwnNames(x) == {IF f \in {"c_type", "a_type"} THEN "type" ELSE f : f \in DOMAIN x}
\* The present sub-settings of the settings struct x, whose serialization is j, are
\* written with exactly their own field names.
SubSettingsOwnNames(x, j) ==
    \A f \in DOMAIN x : x[f] # None => JKeys(JGet(j, f)) = DOMAIN x[f][1]

\* C12: a Content is written as an object with exactly the keys type and value,
\* holding its mime type and its value, never c_type; an Attachment's mime type is
\* written under type, never a_type; and every key of every serialized node is the
\* name of a field of its struct.
C12_FieldNames ==
    /\ json # None =>
         \A i \in 1..Len(built.message[1].content) :
            LET c == built.message[1].content[i]
                j == JGet(json[1], "content").a[i]
            IN  /\ JKeys(j) = {"type", "value"}
                /\ Len(j.o) = 2
                /\ JGet(j, "type") = JStr(c.c_type)
                /\ JGet(j, "value") = JStr(c.value)
    /\ built.attachment # None =>
         LET a == built.attachment[1]  j == SerAttachment(built.attachment[1]) IN
         /\ JKeys(j) = OwnNames(a)
         /\ "a_type" \notin JKeys(j)
         /\ a.a_type # None => JGet(j, "type") = JStr(a.a_type[1])
         /\ JGet(j, "content") = JStr(a.content)
         /\ JGet(j, "filename") = JStr(a.filename)
    /\ built.contact # None =>
         JKeys(SerContact(built.contact[1])) = OwnNames(built.contact[1])
    /\ built.asm # None => JKeys(SerAsm(built.asm[1])) = OwnNames(built.asm[1])
    /\ built.ga # None =>
         JKeys(SerGaTrackingSetting(built.ga[1])) = OwnNames(built.ga[1])
    /\ built.mail # None =>
         /\ JKeys(SerMailSettings(built.mail[1])) = OwnNames(built.mail[1])
         /\ SubSettingsOwnNames(built.mail[1], SerMailSettings(built.mail[1]))
    /\ built.track # None =>
         /\ JKeys(SerTrackingSettings(built.track[1])) = OwnNames(built.track[1])
         /\ SubSettingsOwnNames(built.track[1], SerTrackingSettings(built.track[1]))
    /\ built.pers # None =>
         JKeys(SerPersonalization(built.pers[1])) \subseteq OwnNames(built.pers[1])
    /\ json # None => JKeys(json[1]) \subseteq OwnNames(built.message[1])

\* C12 witness: to_json returned for a Message with a text/plain and a text/html
\* Content, the second written as {"type":"text/html","value":"<p>hello</p>"}.
C12_Witness ==
    /\ json # None
    /\ built.message[1].content =
         << Content_new("text/plain", "hello"), Content_new("text/html", "<p>hello</p>") >>
    /\ JGet(json[1], "content").a[2] =
         JObj(Field("type", JStr("text/html")) \o Field("value", JStr("<p>hello</p>")))

\* j is the unquoted JSON number n.
IsNumber(j, n) == j.t = "num" /\ j.n = n

\* C13: the group_id of an Asm and each element of its groups_to_display, the
\* threshold of a spam_check, and the send_at of a Personalization and of a Message
\* are written as JSON numbers equal to the integer passed, never as strings.
C13_NumbersAreNumbers ==
    /\ built.asm # None =>
         LET a == built.asm[1]  j == SerAsm(built.asm[1]) IN
         /\ IsNumber(JGet(j, "group_id"), a.group_id)
         /\ Len(JGet(j, "groups_to_display").a) = Len(a.groups_to_display)
         /\ \A i \in 1..Len(a.groups_to_display) :
               IsNumber(JGet(j, "groups_to_display").a[i], a.groups_to_display[i])
    /\ (built.mail # None /\ built.mail[1].spam_check # None) =>
         LET sc == built.mail[1].spam_check[1]
             j == JGet(SerMailSettings(built.mail[1]), "spam_check")
         IN  sc.threshold # None => IsNumber(JGet(j, "threshold"), sc.threshold[1])
    /\ (built.pers # None /\ built.pers[1].send_at # None) =>
         IsNumber(JGet(SerPersonalization(built.pers[1]), "send_at"),
                  built.pers[1].send_at[1])
    /\ json # None =>
         LET m == built.message[1] IN
         /\ m.send_at # None => IsNumber(JGet(json[1], "send_at"), m.send_at[1])
         /\ m.asm # None =>
               /\ IsNumber(JGet(JGet(json[1], "asm"), "group_id"), m.asm[1].group_id)
               /\ \A i \in 1..Len(m.asm[1].groups_to_display) :
                     IsNumber(JGet(JGet(json[1], "asm"), "groups_to_display").a[i],
                              m.asm[1].groups_to_display[i])

\* C13 witness: to_json returned for a Message with send_at(-5) and an Asm with a
\* group to display.
C13_Witness ==
    /\ json # None
    /\ built.message[1].send_at = Some(-5)
    /\ built.message[1].asm # None
    /\ built.message[1].asm[1].groups_to_display = <<5>>
    /\ JGet(json[1], "send_at").t = "num"

\* Across the step, the builder of kind k differs in field f at most.
OnlyField(k, f) ==
    /\ builder[k] # None /\ builder'[k] # None
    /\ DOMAIN builder'[k][1] = DOMAIN builder[k][1]
    /\ \A g \in DOMAIN builder[k][1] \ {f} : builder'[k][1][g] = builder[k][1][g]
\* ... and the list f is the list before with one element added at the end.
AppendsOne(k, f) ==
    /\ OnlyField(k, f)
    /\ Len(builder'[k][1][f]) = Len(builder[k][1][f]) + 1
    /\ SubSeq(builder'[k][1][f], 1, Len(builder[k][1][f])) = builder[k][1][f]
\* ... and the map f differs in the entry of one key at most, which it holds after.
InsertsOne(k, f) ==
    /\ OnlyField(k, f)
    /\ builder'[k][1][f].seed = builder[k][1][f].seed
    /\ \E key \in MapKeys :
          /\ DOMAIN builder'[k][1][f].m = DOMAIN builder[k][1][f].m \cup {key}
          /\ \A x \in DOMAIN builder[k][1][f].m \ {key} :
                builder'[k][1][f].m[x] = builder[k][1][f].m[x]

\* C14: every call of a configuration method, of every builder, leaves every field
\* of the builder but the one the method targets as it was; an appending method
\* leaves its list as it was and adds one element at the end; a single-key insert
\* changes the entry of one key at most.
C14_Frame ==
    [][/\ ContactName => OnlyField("contact", "name")
       /\ AttachmentType => OnlyField("attachment", "a_type")
       /\ AttachmentDisposition => OnlyField("attachment", "disposition")
       /\ AttachmentContentId => OnlyField("attachment", "content_id")
       /\ AsmGroupToDisplay => AppendsOne("asm", "groups_to_display")
       /\ GaUtmSource => OnlyField("ga", "utm_source")
       /\ GaUtmMedium => OnlyField("ga", "utm_medium")
       /\ GaUtmTerm => OnlyField("ga", "utm_term")
       /\ GaUtmContent => OnlyField("ga", "utm_content")
       /\ GaUtmCampaign => OnlyField("ga", "utm_campaign")
       /\ MailBcc => OnlyField("mail", "bcc")
       /\ MailBypassListManagement => OnlyField("mail", "bypass_list_management")
       /\ MailFooter => OnlyField("mail", "footer")
       /\ MailSandboxMode => OnlyField("mail", "sandbox_mode")
       /\ MailSpamCheck => OnlyField("mail", "spam_check")
       /\ TrackClickTracking => OnlyField("track", "click_tracking")
       /\ TrackOpenTracking => OnlyField("track", "open_tracking")
       /\ TrackSubstitutionTag => OnlyField("track", "subscription_tracking")
       /\ PersTo => AppendsOne("pers", "to")
       /\ PersCc => AppendsOne("pers", "cc")
       /\ PersBcc => AppendsOne("pers", "bcc")
       /\ PersSubject => OnlyField("pers", "subject")
       /\ PersHeader => InsertsOne("pers", "headers")
       /\ PersHeaders => OnlyField("pers", "headers")
       /\ PersSubstitution => InsertsOne("pers", "substitutions")
       /\ PersDynamicTemplateDatum => InsertsOne("pers", "dynamic_template_data")
       /\ PersDynamicTemplateData => OnlyField("pers", "dynamic_template_data")
       /\ PersCustomArg => InsertsOne("pers", "custom_args")
       /\ PersSendAt => OnlyField("pers", "send_at")
       /\ MessagePersonalization => AppendsOne("message", "personalizations")
       /\ MessagePersonalizations => OnlyField("message", "personalizations")
       /\ MessageReplyTo => OnlyField("message", "reply_to")
       /\ MessageContent => AppendsOne("message", "content")
       /\ MessageAttachment => AppendsOne("message", "attachments")
       /\ MessageTemplateId => OnlyField("message", "template_id")
       /\ MessageSection => InsertsOne("message", "sections")
       /\ MessageHeader => InsertsOne("message", "headers")
       /\ MessageCategory => AppendsOne("message", "categories")
       /\ MessageCustomArg => InsertsOne("message", "custom_args")
       /\ MessageSendAt => OnlyField("message", "send_at")
       /\ MessageBatchId => OnlyField("message", "batch_id")
       /\ MessageAsm => OnlyField("message", "asm")
       /\ MessageIpPoolName => OnlyField("message", "ip_pool_name")
       /\ MessageMailSettings => OnlyField("message", "mail_settings")
       /\ MessageTrackingSettings => OnlyField("message", "tracking_settings")]_vars

\* C14 witness: a MessageBuilder on which batch_id, header and template_id were
\* called, and which holds all three.
C14_Witness ==
    /\ builder.message # None
    /\ called = {"batch_id", "header", "template_id"}
    /\ builder.message[1].batch_id # None
    /\ builder.message[1].template_id # None
    /\ ~HashMap_is_empty(builder.message[1].headers)

\* C15: nothing is validated and nothing fails: build() can be called on every
\* MessageBuilder and to_json() on every Message, and to_json returns a JSON object,
\* also for a Message without personalizations (the key is left out) and for one with
\* a personalization whose to list is empty; the values passed (an address that is
\* none, a negative number) are stored and written as they were passed.
C15_NoValidation ==
    /\ [](builder.message # None => ENABLED MessageBuild)
    /\ [](built.message # None => ENABLED MessageToJson)
    /\ [](json # None =>
            LET m == built.message[1] IN
            /\ json[1].t = "obj"
            /\ m.personalizations = <<>> => ~JHas(json[1], "personalizations")
            /\ \A i \in 1..Len(m.personalizations) :
                  m.personalizations[i].to = <<>> =>
                      ~JHas(JGet(json[1], "personalizations").a[i], "to")
            /\ JGet(json[1], "subject") = JStr(m.subject)
            /\ m.send_at # None => JGet(json[1], "send_at") = JNum(m.send_at[1])
            /\ m.template_id # None =>
                  JGet(json[1], "template_id") = JStr(m.template_id[1]))
    /\ [][/\ \A e \in Emails :
             /\ (Idle /\ builder'.contact = Some(ContactBuilder_new(e))) =>
                  builder'.contact[1].email = e
             /\ Returned("mail", MailSettingsBuilder_bcc(builder.mail[1], e)) =>
                  builder'.mail[1].bcc[1].email = e
          /\ \A n \in Int32s :
             /\ (Idle /\ builder'.asm = Some(AsmBuilder_new(n))) =>
                  builder'.asm[1].group_id = n
             /\ Returned("message", MessageBuilder_send_at(builder.message[1], n)) =>
                  builder'.message[1].send_at = Some(n)
             /\ Returned("pers", PersonalizationBuilder_send_at(builder.pers[1], n)) =>
                  builder'.pers[1].send_at = Some(n)]_vars

\* C15 witness: to_json returned for a Message with one personalization, whose to
\* list is empty, and send_at(-5).
C15_Witness ==
    /\ json # None
    /\ json[1].t = "obj"
    /\ built.message[1].personalizations = << PersonalizationBuilder_default(ZeroSeeds) >>
    /\ JGet(json[1], "personalizations") = JArr(<< JObj(<<>>) >>)
    /\ built.message[1].send_at = Some(-5)

\* C17: build() consumes its builder and returns the state it had accumulated; as
\* long as the value returned is held, its builder does not exist, so that neither a
\* configuration method nor a second build() is applied to it; and nothing done
\* afterwards (to_json included) changes the value, which only goes away when dropped.
C17_Lifecycle ==
    /\ [][\A k \in DOMAIN builder :
             /\ (builder[k] # None /\ builder'[k] = None) =>
                  built'[k] = Some(builder[k][1])
             /\ (built[k] # None /\ built'[k] # None) => built'[k] = built[k]
             /\ (built[k] = None /\ built'[k] # None) =>
                  (builder[k] # None /\ builder'[k] = None)]_vars
    /\ [](\A k \in DOMAIN builder : built[k] # None => builder[k] = None)
    /\ [](built.message # None => ~ENABLED (MessageCalls \/ MessageBuild))
    /\ [](built.pers # None => ~ENABLED (PersTo \/ PersHeader \/ PersSendAt \/ PersBuild))
    /\ [](built.contact # None => ~ENABLED (ContactName \/ ContactBuild))

\* C17 witness: a Message was built after three calls and to_json was called on it;
\* its builder is gone.
C17_Witness ==
    /\ built.message # None
    /\ builder.message = None
    /\ calls = 3
    /\ json = Some(Message_to_json(built.message[1]))

\* C18: after personalizations(data) the list of personalizations is data, whatever
\* it held before; a personalization(p) call adds p after the elements already there,
\* those of data included.
C18_PersonalizationsOverwrite ==
    [][/\ \A data \in {<<>>, <<PersTo1>>} :
          Returned("message", MessageBuilder_personalizations(builder.message[1], data)) =>
              builder'.message[1].personalizations = data
       /\ \A p \in {PersTo1, PersonalizationBuilder_default(ZeroSeeds), PersOverride} :
          Returned("message", MessageBuilder_personalization(builder.message[1], p)) =>
              builder'.message[1].personalizations =
                  builder.message[1].personalizations \o <<p>>]_vars

\* C18 witness: personalization and personalizations were both called and the list
\* is empty: personalizations(vec![]) discarded what personalization had added.
C18_Witness ==
    /\ built.message # None
    /\ called = {"personalization", "personalizations"}
    /\ built.message[1].personalizations = <<>>
    /\ json # None /\ ~JHas(json[1], "personalizations")

\* The map after is the map before with the entry k -> v added or replaced.
Inserted(before, after, k, v) ==
    /\ DOMAIN after.m = DOMAIN before.m \cup {k}
    /\ after.m[k] = v
    /\ \A x \in DOMAIN before.m \ {k} : after.m[x] = before.m[x]

\* C19: after headers(data) the headers of a PersonalizationBuilder are data, and
\* after dynamic_template_data(data) its dynamic_template_data are data, whatever
\* header(..) / dynamic_template_datum(..) had inserted before; a single-key call adds
\* its entry to what is there, data included, or replaces the value of its key.
C19_BulkSettersOverwrite ==
    [][/\ \A data \in HashMapArgs :
          /\ Returned("pers", PersonalizationBuilder_headers(builder.pers[1], data)) =>
                builder'.pers[1].headers = data
          /\ Returned("pers",
                      PersonalizationBuilder_dynamic_template_data(builder.pers[1], data)) =>
                builder'.pers[1].dynamic_template_data = data
       /\ \A k \in MapKeys, v \in MapValues :
          /\ Returned("pers", PersonalizationBuilder_header(builder.pers[1], k, v)) =>
                Inserted(builder.pers[1].headers, builder'.pers[1].headers, k, v)
          /\ Returned("pers",
                      PersonalizationBuilder_dynamic_template_datum(builder.pers[1], k, v)) =>
                Inserted(builder.pers[1].dynamic_template_data,
                         builder'.pers[1].dynamic_template_data, k, v)]_vars

\* C19 witness: header and headers were both called and the built Personalization
\* has no header: headers(empty map) discarded the entry header had inserted.
C19_Witness ==
    /\ built.pers # None
    /\ called = {"header", "headers"}
    /\ HashMap_is_empty(built.pers[1].headers)
    /\ ~JHas(SerPersonalization(built.pers[1]), "headers")

\* The object written for the map hm has each key of hm once, with its value.
WrittenOnce(hm) ==
    LET j == SerHashMap(hm) IN
    /\ Len(j.o) = Cardinality(DOMAIN hm.m)
    /\ JKeys(j) = DOMAIN hm.m
    /\ \A k \in DOMAIN hm.m : JGet(j, k).t = "str" /\ JGet(j, k).s = hm.m[k]
\* An insert of k -> v: k holds v afterwards, every other entry is as before, and the
\* number of entries is unchanged when k was present; also in the object written.
ReplacesOrAdds(before, after, k, v) ==
    /\ Inserted(before, after, k, v)
    /\ k \in DOMAIN before.m => Cardinality(DOMAIN after.m) = Cardinality(DOMAIN before.m)
    /\ WrittenOnce(after)
    /\ JGet(SerHashMap(after), k).s = v

\* C20: every insert of a key into a map of a MessageBuilder (section, header,
\* custom_arg) or of a PersonalizationBuilder (header, substitution,
\* dynamic_template_datum, custom_arg) leaves the key with the value given, replacing
\* the value of a key that was present without changing the number of entries; the
\* object written for every map has each key once, holding the last value inserted.
C20_UniqueKeys ==
    /\ [][\A k \in MapKeys, v \in MapValues :
          /\ Returned("pers", PersonalizationBuilder_header(builder.pers[1], k, v)) =>
              ReplacesOrAdds(builder.pers[1].headers, builder'.pers[1].headers, k, v)
          /\ Returned("pers", PersonalizationBuilder_substitution(builder.pers[1], k, v)) =>
              ReplacesOrAdds(builder.pers[1].substitutions, builder'.pers[1].substitutions, k, v)
          /\ Returned("pers", PersonalizationBuilder_dynamic_template_datum(builder.pers[1], k, v)) =>
              ReplacesOrAdds(builder.pers[1].dynamic_template_data, builder'.pers[1].dynamic_template_data, k, v)
          /\ Returned("pers", PersonalizationBuilder_custom_arg(builder.pers[1], k, v)) =>
              ReplacesOrAdds(builder.pers[1].custom_args, builder'.pers[1].custom_args, k, v)
          /\ Returned("message", MessageBuilder_section(builder.message[1], k, v)) =>
              ReplacesOrAdds(builder.message[1].sections, builder'.message[1].sections, k, v)
          /\ Returned("message", MessageBuilder_header(builder.message[1], k, v)) =>
              ReplacesOrAdds(builder.message[1].headers, builder'.message[1].headers, k, v)
          /\ Returned("message", MessageBuilder_custom_arg(builder.message[1], k, v)) =>
              ReplacesOrAdds(builder.message[1].custom_args, builder'.message[1].custom_args, k, v)]_vars
    /\ [](built.pers # None =>
            \A f \in PersMapKeys :
               /\ WrittenOnce(built.pers[1][f])
               /\ ~HashMap_is_empty(built.pers[1][f]) =>
                     JGet(SerPersonalization(built.pers[1]), f)
                       = SerHashMap(built.pers[1][f]))
    /\ [](json # None =>
            \A f \in MessageMapKeys :
               /\ WrittenOnce(built.message[1][f])
               /\ ~HashMap_is_empty(built.message[1][f]) =>
                     JGet(json[1], f) = SerHashMap(built.message[1][f]))

\* C20 witness: header was called three times and nothing else, the last time with
\* ("a", "y"); the Message has one header, written as {"a":"y"}.
C20_Witness ==
    /\ json # None
    /\ called = {"header"}
    /\ calls = 3
    /\ JGet(json[1], "headers") = JObj(Field("a", JStr("y")))

\* C21: a call of a single-valued method leaves its field holding the argument of
\* that call and nothing of what an earlier call had set: reply_to, template_id,
\* send_at, batch_id, asm, ip_pool_name, mail_settings, tracking_settings of a
\* MessageBuilder; subject, send_at of a PersonalizationBuilder; name of a
\* ContactBuilder; bcc, footer, spam_check of a MailSettingsBuilder, so that
\* footer(Some(t), None) then footer(None, Some(h)) leaves text None and html Some(h).
C21_LastWriteWins ==
    [][
       /\ \A c \in ContactArgs :
          Returned("message", MessageBuilder_reply_to(builder.message[1], c)) =>
              builder'.message[1].reply_to = Some(c)
       /\ \A id \in {"SENDGRID-TEMPLATE-ID", "OTHER-TEMPLATE-ID"} :
          Returned("message", MessageBuilder_template_id(builder.message[1], id)) =>
              builder'.message[1].template_id = Some(id)
       /\ \A n \in Int32s :
          Returned("message", MessageBuilder_send_at(builder.message[1], n)) =>
              builder'.message[1].send_at = Some(n)
       /\ \A id \in {"batch", "batch2"} :
          Returned("message", MessageBuilder_batch_id(builder.message[1], id)) =>
              builder'.message[1].batch_id = Some(id)
       /\ \A a \in {AsmBuilder_new(1), AsmBuilder_group_to_display(AsmBuilder_new(1), 5)} :
          Returned("message", MessageBuilder_asm(builder.message[1], a)) =>
              builder'.message[1].asm = Some(a)
       /\ \A name \in {"pool", "pool2"} :
          Returned("message", MessageBuilder_ip_pool_name(builder.message[1], name)) =>
              builder'.message[1].ip_pool_name = Some(name)
       /\ \A ms \in {MailSettingsBuilder_default, SandboxSettings} :
          Returned("message", MessageBuilder_mail_settings(builder.message[1], ms)) =>
              builder'.message[1].mail_settings = Some(ms)
       /\ \A ts \in {ClickSettings, TrackingSettingsBuilder_default} :
          Returned("message", MessageBuilder_tracking_settings(builder.message[1], ts)) =>
              builder'.message[1].tracking_settings = Some(ts)
       /\ \A subject \in {"Subject Line!", "Other subject"} :
          Returned("pers", PersonalizationBuilder_subject(builder.pers[1], subject)) =>
              builder'.pers[1].subject = Some(subject)
       /\ \A n \in Int32s :
          Returned("pers", PersonalizationBuilder_send_at(builder.pers[1], n)) =>
              builder'.pers[1].send_at = Some(n)
       /\ \A name \in Names :
          Returned("contact", ContactBuilder_name(builder.contact[1], name)) =>
              builder'.contact[1].name = Some(name)
       /\ \A email \in Emails :
          Returned("mail", MailSettingsBuilder_bcc(builder.mail[1], email)) =>
              builder'.mail[1].bcc = Some([enable |-> TRUE, email |-> email])
       /\ \A text \in OptionsOf({"text"}), html \in OptionsOf({"<p>html</p>"}) :
          Returned("mail", MailSettingsBuilder_footer(builder.mail[1], text, html)) =>
              builder'.mail[1].footer =
                  Some([enable |-> TRUE, text |-> text, html |-> html])
       /\ \A threshold \in OptionsOf(Int32s), url \in OptionsOf({"http://url"}) :
          Returned("mail", MailSettingsBuilder_spam_check(builder.mail[1], threshold, url)) =>
              builder'.mail[1].spam_check =
                  Some([enable |-> TRUE, threshold |-> threshold, post_to_url |-> url])
      ]_vars

\* C21 witness: a MailSettings built after footer calls only, the last of them
\* footer(None, Some(h)): its footer has no text and the html h.
C21_Witness ==
    /\ built.mail # None
    /\ called = {"footer"}
    /\ built.mail[1].footer =
         Some([enable |-> TRUE, text |-> None, html |-> Some("<p>html</p>")])

\* C22: MessageBuilder::new(from, subject) stores its arguments; no call on the
\* builder changes from or subject, build() returns them, and every to_json output
\* has the keys from and subject holding them, also when a Personalization of the
\* Message has a subject of its own.
C22_RequiredFieldsFixed ==
    /\ [][/\ \A seeds \in MessageSeeds :
             builder'.message = Some(MessageBuilder_new(FromContact, "Subject Line!", seeds)) =>
                 /\ builder'.message[1].from = FromContact
                 /\ builder'.message[1].subject = "Subject Line!"
          /\ (builder.message # None /\ builder'.message # None) =>
                 /\ builder'.message[1].from = builder.message[1].from
                 /\ builder'.message[1].subject = builder.message[1].subject
          /\ (builder.message # None /\ built'.message # None) =>
                 /\ built'.message[1].from = builder.message[1].from
                 /\ built'.message[1].subject = builder.message[1].subject]_vars
    /\ [](json # None =>
            /\ {"from", "subject"} \subseteq JKeys(json[1])
            /\ JGet(json[1], "from") = SerContact(built.message[1].from)
            /\ JGet(json[1], "subject").t = "str"
            /\ JGet(json[1], "subject").s = built.message[1].subject
            /\ built.message[1].from = FromContact
            /\ built.message[1].subject = "Subject Line!")

\* C22 witness: to_json returned for a Message built with a Personalization whose
\* subject is "Override"; the Message's subject is written as "Subject Line!".
C22_Witness ==
    /\ json # None
    /\ built.message[1].personalizations = << PersOverride >>
    /\ JGet(JGet(json[1], "personalizations").a[1], "subject") = JStr("Override")
    /\ JGet(json[1], "subject") = JStr("Subject Line!")

\* C23: a to_json call leaves the Message, and every builder, as it was; what
\* it returns is the serialization of that Message, so a call after an earlier one
\* returns what the earlier one returned, and to_json can be called again.
C23_ToJsonPureRead ==
    /\ [][MessageToJson =>
             /\ built' = built
             /\ builder' = builder
             /\ json'[1] = Message_to_json(built'.message[1])
             /\ (json # None => json' = json)
             /\ built'.message # None]_vars
    /\ [](json # None =>
            /\ json[1] = Message_to_json(built.message[1])
            /\ ENABLED MessageToJson)

\* C23 witness: to_json returned for a Message with two headers and one
\* personalization, and the Message is still there for the next call.
C23_Witness ==
    /\ json # None
    /\ DOMAIN built.message[1].headers.m = MapKeys
    /\ built.message[1].personalizations = << PersTo1 >>
    /\ JKeys(JGet(json[1], "headers")) = MapKeys
    /\ Len(JGet(json[1], "personalizations").a) = 1
    /\ ENABLED MessageToJson

(***************************************************************************)
(* Claims about to_json with a serializer that may fail (SpecDefect).      *)
(***************************************************************************)
\* The call that produced j panicked.
Panicked(j) == j # None /\ j[1].t = "panic"

\* C16: when the serializer reports an error, to_json panics: it returns no string
\* and no error value; a panic arises from no other step (constructor, configuration
\* method, build, or to_json with a serializer that works), and to_json with a
\* serializer that works returns a JSON object.
C16_OnlyPanic ==
    /\ [][MessageToJsonDefect => Panicked(json')]_vars
    /\ [][(Panicked(json') /\ ~Panicked(json)) => MessageToJsonDefect]_vars
    /\ [][MessageToJson => (json' # None /\ json'[1].t = "obj")]_vars
    /\ [](builder.message # None => ENABLED (MessageCalls \/ MessageBuild))

\* C16 witness: to_json was called on a built Message with a serializer that
\* reported an error, and panicked.
C16_Witness ==
    /\ built.message # None
    /\ calls = 2
    /\ Panicked(json)

====
